---- MODULE Spec2Model ----
(***************************************************************************)
(* Model of verify_integrity.py: the incremental integrity index           *)
(* (index_files) and the verification pass (verify_files) over a SQLite    *)
(* store, together with the file system they read.                         *)
(*                                                                         *)
(* A path is <<directory, stem, extension>>; its string form is the        *)
(* absolute path root/directory/stem+extension.  A file is a record        *)
(* [bytes, mtime]; st_size is the length of bytes.  The store is a         *)
(* function from path to record; db is what is committed on disk and conn  *)
(* is what the open connection sees (db plus the open transaction).        *)
(***************************************************************************)
EXTENDS Integers, Sequences, FiniteSets, TLC

\* ---------------------------------------------------------------- bounds
MaxEdits == 1          \* file-system changes made by the environment
MaxRuns == 2           \* index / verify invocations in one behaviour
MaxMtime == 2          \* modification times are 1..MaxMtime
MaxNow == 2            \* int(time.time()) ranges over 1..MaxNow
MaxShuffle == 3        \* directories up to this size are listed in any order
BatchFiles == 251      \* size of the large tree of SpecBatch
MaxArgChars == 4       \* characters in the --exclude-ext arguments of a command

\* ------------------------------------------------------ program constants
DEFAULT_HASH_ALGO == "sha256"
COMMIT_EVERY == 250

\* ------------------------------------------------------------ file system
TOP == "/"
NoPath == <<>>

Dir(p) == p[1]
Filename(p) == <<p[2], p[3]>>

Lower_identity(s) == s

\* str.lower() on the suffixes that occur
Lower(s) ==
  CASE s = ".TMP" -> ".tmp"
    [] s = ".JPG" -> ".jpg"
    [] OTHER -> s

Suffix(p) == p[3]

\* the small tree the environment edits
Paths ==
  { <<"old", "photo", ".jpg">>,
    <<"new", "photo", ".jpg">>,
    <<"old", "notes", ".TMP">> }

\* a tree with a nested directory, a file next to the directories, a
\* symbolic link to a directory, a directory that cannot be listed, a
\* symbolic link to a file and an entry whose stat fails
WalkPaths ==
  { <<"/", "cover", ".jpg">>,
    <<"old", "photo", ".jpg">>,
    <<"old/sub", "photo", ".jpg">>,
    <<"link", "photo", ".jpg">>,
    <<"locked", "photo", ".jpg">>,
    <<"old", "alias", ".lnk">>,
    <<"old", "stale", ".err">> }

\* the large tree: BatchFiles files in one directory
BatchPaths == { <<"bulk", i, ".jpg">> : i \in 1..BatchFiles }

Bytes == { <<0>>, <<1>>, <<0, 0>> }
InitBytes == { <<0>>, <<1>> }

ExcludeSets == { {}, {".tmp"} }

\* the roots a command may be given: TOP, the directory new and the file
\* new/photo.jpg
RootArgs == { TOP, "new", "new/photo.jpg" }

\* str(path), relative to TOP
AsRoot(p) == Dir(p) \o "/" \o p[2] \o p[3]

\* main, line 611: root.exists().  A directory exists while a file lies
\* under it.
root_exists(root, files) ==
  IF root = TOP THEN TRUE
  ELSE \E p \in DOMAIN files : Dir(p) = root \/ AsRoot(p) = root

root_is_dir_any(root, files) == TRUE

\* main, line 614: root.is_dir()
root_is_dir(root, files) ==
  IF root = TOP THEN TRUE
  ELSE \E p \in DOMAIN files : Dir(p) = root

\* A directory is named by its path below TOP; Parent(d) is the directory
\* that lists it.
Parent(d) ==
  CASE d = "old/sub" -> "old"
    [] OTHER -> TOP

\* the directories from d up to, not including, TOP
RECURSIVE Chain(_)
Chain(d) == IF d = TOP THEN {} ELSE {d} \cup Chain(Parent(d))

\* the directories on disk: those that hold a file, and the ones above them
DirsOf(files) == UNION { Chain(Dir(p)) : p \in DOMAIN files }

is_under_root_any(p, root) == TRUE

\* Path.relative_to(root) succeeds
is_under_root(p, root) == root = TOP \/ root \in Chain(Dir(p))

\* ---------------------------------------------------- exclusion arguments
\* A string is a sequence of characters; these are the characters that
\* parse_exclude_extensions tells apart: a lower-case and an upper-case
\* letter, the dot, the comma and white space.
Chars == { "a", "A", ".", ",", " " }

\* str.split(sep): the pieces of s between the separators, in order
RECURSIVE str_split(_, _)
str_split(s, sep) ==
  IF \A i \in 1..Len(s) : s[i] # sep
  THEN << s >>
  ELSE LET i == CHOOSE k \in 1..Len(s) :
                  s[k] = sep /\ \A j \in 1..(k - 1) : s[j] # sep
       IN << SubSeq(s, 1, i - 1) >> \o str_split(SubSeq(s, i + 1, Len(s)), sep)

RECURSIVE str_strip_left(_)
str_strip_left(s) ==
  IF s # <<>> /\ Head(s) = " " THEN str_strip_left(Tail(s)) ELSE s

\* str.strip(): s without leading and trailing white space
RECURSIVE str_strip(_)
str_strip(s) ==
  IF s # <<>> /\ Head(s) = " " THEN str_strip(Tail(s))
  ELSE IF s # <<>> /\ s[Len(s)] = " " THEN str_strip(SubSeq(s, 1, Len(s) - 1))
  ELSE s

\* str.lower()
str_lower(s) == [ i \in 1..Len(s) |-> IF s[i] = "A" THEN "a" ELSE s[i] ]

\* lines 43-54
parse_exclude_extensions(exclude_args) ==
  LET parts == UNION { { str_split(exclude_args[k], ",")[n] :
                           n \in 1..Len(str_split(exclude_args[k], ",")) } :
                       k \in 1..Len(exclude_args) }
      exts == { str_lower(str_strip(part)) : part \in parts } \ { <<>> }
  IN { IF Head(ext) = "." THEN ext ELSE << "." >> \o ext : ext \in exts }

\* the --exclude-ext arguments argparse may collect: no argument, or the
\* arguments written one after the other on a line of at most MaxArgChars
\* characters, "|" standing between one argument and the next
ExcludeArgs ==
  { <<>> } \cup
  { str_split(line, "|") :
      line \in UNION { [ 1..n -> Chars \cup { "|" } ] : n \in 0..MaxArgChars } }

\* ----------------------------------------------------------------- hasher
\* compute_hash: the digest of the whole byte stream, fed to the hasher in
\* order.  SHA-256 is modelled as collision free: the digest is the stream
\* read as a binary numeral behind a leading 1.
RECURSIVE hash_update(_, _)
hash_update(h, chunk) ==
  IF chunk = <<>> THEN h ELSE hash_update(2 * h + Head(chunk), Tail(chunk))

compute_hash(b) == hash_update(1, b)

\* the digest a legacy algorithm gives: never equal to a sha256 digest
legacy_hash(b) == 0 - compute_hash(b)

\* ----------------------------------------------------------------- walker
\* All the orders in which os.scandir may list a set of entries.  Large
\* directories are listed in one order (by stem) to keep the model finite.
RECURSIVE Perms(_)
Perms(S) ==
  IF S = {} THEN { <<>> }
  ELSE IF Cardinality(S) > MaxShuffle
  THEN { [i \in 1..Cardinality(S) |->
            CHOOSE p \in S : Cardinality({q \in S : q[2] < p[2]}) = i - 1] }
  ELSE UNION { { <<x>> \o s : s \in Perms(S \ {x}) } : x \in S }

\* The kind of an entry is read off its name: link is a symbolic link to a
\* directory; locked is a directory os.scandir may not open; a .lnk entry is
\* a symbolic link to a file; stat of a .err entry raises OSError.
SymlinkDirs == { "link" }
UnreadableDirs == { "locked" }
SymlinkSuffixes == { ".lnk" }
BrokenSuffixes == { ".err" }

entry_is_dir_follow(d) == TRUE

\* line 66: entry.is_dir(follow_symlinks=False)
entry_is_dir(d) == d \notin SymlinkDirs

\* lines 68 and 70: entry.is_file(follow_symlinks=False), False for a
\* symbolic link; an entry that raises OSError is skipped
entry_is_file(p) == Suffix(p) \notin SymlinkSuffixes \cup BrokenSuffixes

\* lines 63 and 72: os.scandir(current) raises OSError
scandir_fails(d) == d \in UnreadableDirs

\* iter_files resumed once: the set of [yield, walk] it may produce.  walk
\* is [stack, entries]: the directories still to scan and the files of the
\* directory being scanned that are not yet yielded.  yield = NoPath when
\* the generator is exhausted.
RECURSIVE iter_files(_, _)
iter_files(w, files) ==
  IF w.entries # <<>>
  THEN { [yield |-> Head(w.entries),
          walk |-> [w EXCEPT !.entries = Tail(w.entries)]] }
  ELSE IF w.stack = <<>>
  THEN { [yield |-> NoPath, walk |-> w] }
  ELSE LET current == w.stack[Len(w.stack)]
           rest == SubSeq(w.stack, 1, Len(w.stack) - 1)
           subdirs == { d \in DirsOf(files) :
                          Parent(d) = current /\ entry_is_dir(d) }
           regular == { p \in DOMAIN files :
                          Dir(p) = current /\ entry_is_file(p) }
       IN IF scandir_fails(current)
          THEN iter_files([stack |-> rest, entries |-> <<>>], files)
          ELSE UNION { UNION { iter_files([stack |-> rest \o ds,
                                          entries |-> es], files)
                               : es \in Perms(regular) }
                       : ds \in Perms(subdirs) }

\* ------------------------------------------------------------------ store
\* One row of table files.  path is the key of the function that holds the
\* rows; stat_bytes is a history field (not a column): the bytes the file
\* held when the size and mtime of the row were read.
Row_swapped(p, size, mtime_ns, digest, algo, seen, observed) ==
  [ filename |-> Filename(p), size |-> digest, mtime_ns |-> mtime_ns,
    hash |-> size, hash_algo |-> algo, last_seen |-> seen,
    stat_bytes |-> observed ]

Row(p, size, mtime_ns, digest, algo, seen, observed) ==
  [ filename |-> Filename(p), size |-> size, mtime_ns |-> mtime_ns,
    hash |-> digest, hash_algo |-> algo, last_seen |-> seen,
    stat_bytes |-> observed ]

Upsert_replace(store, p, row) ==
  [ q \in {p} |-> row ]

Upsert_append(store, p, row) ==
  IF p \in DOMAIN store
  THEN [ q \in DOMAIN store \cup { <<p[1], p[2], p[3], "2">> } |->
           IF q \in DOMAIN store THEN store[q] ELSE row ]
  ELSE [ q \in DOMAIN store \cup {p} |-> IF q = p THEN row ELSE store[q] ]

Upsert_ignore(store, p, row) ==
  [ q \in DOMAIN store \cup {p} |-> IF q \in DOMAIN store THEN store[q] ELSE row ]

\* INSERT ... ON CONFLICT(path) DO UPDATE SET every column
Upsert(store, p, row) ==
  [ q \in DOMAIN store \cup {p} |-> IF q = p THEN row ELSE store[q] ]

TouchLastSeen_keep(store, p, t) == store

TouchLastSeen_all(store, p, t) ==
  [ q \in DOMAIN store |-> [ store[q] EXCEPT !.last_seen = t ] ]

TouchLastSeen_zero(store, p, t) ==
  [ store EXCEPT ![p].last_seen = 0 ]

\* UPDATE files SET last_seen = ? WHERE path = ?
TouchLastSeen(store, p, t) ==
  [ store EXCEPT ![p].last_seen = t ]

EmptyStore == [ q \in {} |-> 0 ]

\* ------------------------------------------------------------------ state
VARIABLES
  fs,            \* the files on disk: path -> [bytes, mtime]
  db_exists,     \* the database file exists
  db,            \* committed rows
  conn,          \* rows as the open connection sees them
  now,           \* the wall clock, in seconds
  mode,          \* "idle", "index" or "verify"
  pc,            \* position inside the run: "loop", "stat", "hash"
  args,          \* [root, exclude_exts] of the run
  run_started,
  walk,          \* the state of the iter_files generator
  cur,           \* the file of the current iteration
  stats,
  details,
  processed_since_commit,
  verified_hashes,
  verified_paths,
  report,        \* the report of the last finished run
  exit_code,     \* what main passed to sys.exit, -1 before any exit
  edits,         \* number of file-system changes so far
  runs,          \* number of runs started so far
  quiet,         \* history: no file changed since the current/last run began
  start_db,      \* history: the committed rows when the run began
  repeat,        \* history: the run repeats an index run, no file changed
  versions,      \* history: every [path, bytes, mtime] a file ever had
  recovery       \* history: what an interrupted run left to redo

vars == << fs, db_exists, db, conn, now, mode, pc, args, run_started, walk,
           cur, stats, details, processed_since_commit, verified_hashes,
           verified_paths, report, exit_code, edits, runs, quiet, start_db,
           repeat, versions, recovery >>

\* ------------------------------------------------------------ idle values
NoCur == [ path |-> NoPath ]
NoWalk == [ stack |-> <<>>, entries |-> <<>> ]
NoArgs == [ command |-> "none", root |-> TOP, exclude_exts |-> {} ]
NoStats == [ scanned |-> 0 ]
NoDetails == [ errors |-> {} ]
NoReport == [ mode |-> "none" ]
NoRecovery == [ active |-> FALSE ]

IndexStats0 ==
  [ scanned |-> 0, excluded |-> 0, hashed_new |-> 0, hashed_updated |-> 0,
    unchanged |-> 0, errors |-> 0 ]
IndexDetails0 == [ added |-> {}, updated |-> {}, errors |-> {} ]

\* verified is a history field: the paths counted under stats["verified"]
VerifyStats0(n) ==
  [ scanned |-> 0, excluded |-> 0, verified |-> 0, mismatched |-> 0,
    missing |-> 0, untracked |-> 0, errors |-> 0, db_entries |-> n ]
VerifyDetails0 ==
  [ mismatched |-> {}, missing |-> {}, untracked |-> {}, errors |-> {},
    verified |-> {} ]

File(b, m) == [ bytes |-> b, mtime |-> m ]
Version(p, f) == [ path |-> p, bytes |-> f.bytes, mtime |-> f.mtime ]
st_size(f) == Len(f.bytes)

Inc(s, k) == [ s EXCEPT ![k] = @ + 1 ]
Add(d, k, e) == [ d EXCEPT ![k] = @ \cup {e} ]

\* ------------------------------------------------------------------- Init
IdleRun ==
  /\ mode = "idle"
  /\ pc = "loop"
  /\ args = NoArgs
  /\ run_started = 0
  /\ walk = NoWalk
  /\ cur = NoCur
  /\ stats = NoStats
  /\ details = NoDetails
  /\ processed_since_commit = 0
  /\ verified_hashes = {}
  /\ verified_paths = {}
  /\ report = NoReport
  /\ exit_code = -1
  /\ edits = 0
  /\ runs = 0
  /\ quiet = TRUE
  /\ start_db = EmptyStore
  /\ repeat = FALSE
  /\ versions = { Version(p, fs[p]) : p \in DOMAIN fs }
  /\ recovery = NoRecovery

\* Any tree over Paths, every file written at time 1; no database yet.
Init ==
  /\ \E present \in SUBSET Paths :
       fs \in [ present -> { File(b, 1) : b \in InitBytes } ]
  /\ db_exists = FALSE
  /\ db = EmptyStore
  /\ conn = EmptyStore
  /\ now = 1
  /\ IdleRun

\* ------------------------------------------------------------ environment
runLocal == << mode, pc, args, run_started, walk, cur, stats, details,
               processed_since_commit, verified_hashes, verified_paths,
               report, exit_code, runs, start_db, repeat >>
storeVars == << db_exists, db, conn >>

Edited ==
  /\ edits < MaxEdits
  /\ db_exists
  /\ mode = "idle" => runs < MaxRuns
  /\ edits' = edits + 1
  /\ quiet' = FALSE
  /\ recovery' = NoRecovery
  /\ versions' = versions \cup { Version(p, fs'[p]) : p \in DOMAIN fs' }
  /\ UNCHANGED << runLocal, storeVars, now >>

\* _write_file / os.utime: create or overwrite p
WriteFile(p, b, m) ==
  /\ IF p \in DOMAIN fs THEN fs[p] # File(b, m) ELSE TRUE
  /\ fs' = [ q \in DOMAIN fs \cup {p} |-> IF q = p THEN File(b, m) ELSE fs[q] ]
  /\ Edited

\* Path.unlink
DeleteFile(p) ==
  /\ p \in DOMAIN fs
  /\ fs' = [ q \in DOMAIN fs \ {p} |-> fs[q] ]
  /\ Edited

\* a move: the file appears at b with the bytes and mtime it had at a
MoveFile(a, b) ==
  /\ a \in DOMAIN fs
  /\ b \notin DOMAIN fs
  /\ fs' = [ q \in (DOMAIN fs \ {a}) \cup {b} |-> IF q = b THEN fs[a] ELSE fs[q] ]
  /\ Edited

\* ---------------------------------------------------------------- indexer
Unchanged_anyrow(store, p, size, mtime_ns) ==
  \E q \in DOMAIN store :
    store[q].size = size /\ store[q].mtime_ns = mtime_ns

Unchanged_never(store, p, size, mtime_ns) == FALSE

\* line 213: the metadata fingerprint of the stored row equals the stat
Unchanged(store, p, size, mtime_ns) ==
  /\ p \in DOMAIN store
  /\ store[p].size = size
  /\ store[p].mtime_ns = mtime_ns

CommitDue_never(n) == FALSE

\* line 269
CommitDue(n) == n >= COMMIT_EVERY

Processed_nocount(conn2) ==
  /\ conn' = conn2
  /\ db' = db
  /\ processed_since_commit' = processed_since_commit

\* lines 268-271: count the file and commit when the batch is full
Processed(conn2) ==
  /\ conn' = conn2
  /\ IF CommitDue(processed_since_commit + 1)
     THEN db' = conn2 /\ processed_since_commit' = 0
     ELSE db' = db /\ processed_since_commit' = processed_since_commit + 1

\* main (index): root checked, then index_files up to the for loop
IndexStart(root, excl) ==
  /\ mode = "idle"
  /\ runs < MaxRuns
  /\ root_exists(root, fs)
  /\ root_is_dir(root, fs)
  /\ runs' = runs + 1
  /\ \E t \in now..MaxNow : now' = t /\ run_started' = t
  /\ mode' = "index"
  /\ pc' = "loop"
  /\ args' = [ command |-> "index", root |-> root, exclude_exts |-> excl ]
  /\ walk' = [ stack |-> <<root>>, entries |-> <<>> ]
  /\ cur' = NoCur
  /\ stats' = IndexStats0
  /\ details' = IndexDetails0
  /\ processed_since_commit' = 0
  /\ db_exists' = TRUE
  /\ conn' = db
  /\ report' = NoReport
  /\ exit_code' = -1
  /\ quiet' = TRUE
  /\ start_db' = db
  /\ repeat' = ( /\ report.mode = "index"
                 /\ quiet
                 /\ report.root = root
                 /\ report.exclude_exts = excl )
  /\ recovery' = IF recovery.active /\ exit_code = 1 /\ recovery.args = args'
                 THEN recovery ELSE NoRecovery
  /\ UNCHANGED << fs, db, verified_hashes, verified_paths, edits, versions >>

\* lines 186-195: the generator yields a file; exclusion; scanned
IndexNext ==
  /\ mode = "index"
  /\ pc = "loop"
  /\ \E r \in iter_files(walk, fs) :
       /\ r.yield # NoPath
       /\ walk' = r.walk
       /\ IF Lower(Suffix(r.yield)) \in args.exclude_exts
          THEN /\ stats' = Inc(stats, "excluded")
               /\ UNCHANGED << pc, cur >>
          ELSE /\ stats' = Inc(stats, "scanned")
               /\ cur' = [ path |-> r.yield ]
               /\ pc' = "stat"
  /\ UNCHANGED << fs, storeVars, now, mode, args, run_started, details,
                  processed_since_commit, verified_hashes, verified_paths,
                  report, exit_code, edits, runs, quiet, start_db,
                  repeat, versions, recovery >>

\* lines 196-218: stat, look the path up, the unchanged shortcut
IndexStat ==
  /\ mode = "index"
  /\ pc = "stat"
  /\ LET p == cur.path IN
     IF p \notin DOMAIN fs
     THEN /\ stats' = Inc(stats, "errors")
          /\ details' = Add(details, "errors", [ path |-> p, error |-> "stat" ])
          /\ pc' = "loop"
          /\ cur' = NoCur
          /\ UNCHANGED << db, conn, processed_since_commit >>
     ELSE LET size == st_size(fs[p])
              mtime_ns == fs[p].mtime
          IN IF Unchanged(conn, p, size, mtime_ns)
             THEN /\ Processed(TouchLastSeen(conn, p, run_started))
                  /\ stats' = Inc(stats, "unchanged")
                  /\ pc' = "loop"
                  /\ cur' = NoCur
                  /\ UNCHANGED details
             ELSE /\ cur' = [ path |-> p, size |-> size, mtime_ns |-> mtime_ns,
                              existing |-> p \in DOMAIN conn,
                              previous_hash |-> IF p \in DOMAIN conn
                                                THEN conn[p].hash ELSE 0,
                              observed |-> fs[p].bytes ]
                  /\ pc' = "hash"
                  /\ UNCHANGED << db, conn, processed_since_commit, stats, details >>
  /\ UNCHANGED << fs, db_exists, now, mode, args, run_started, walk,
                  verified_hashes, verified_paths, report, exit_code, edits,
                  runs, quiet, start_db,
                  repeat, versions, recovery >>

\* lines 219-271: hash, classify new / updated, upsert
IndexHash ==
  /\ mode = "index"
  /\ pc = "hash"
  /\ LET p == cur.path IN
     IF p \notin DOMAIN fs
     THEN /\ stats' = Inc(stats, "errors")
          /\ details' = Add(details, "errors", [ path |-> p, error |-> "hash" ])
          /\ UNCHANGED << db, conn, processed_since_commit >>
     ELSE LET digest == compute_hash(fs[p].bytes)
              entry == [ path |-> p, size |-> cur.size,
                         mtime_ns |-> cur.mtime_ns, hash |-> digest ]
          IN /\ IF cur.existing
                THEN /\ stats' = Inc(stats, "hashed_updated")
                     /\ details' = Add(details, "updated",
                          [ path |-> p, size |-> cur.size,
                            mtime_ns |-> cur.mtime_ns, hash |-> digest,
                            previous_hash |-> cur.previous_hash ])
                ELSE /\ stats' = Inc(stats, "hashed_new")
                     /\ details' = Add(details, "added", entry)
             /\ Processed(Upsert(conn, p,
                  Row(p, cur.size, cur.mtime_ns, digest, DEFAULT_HASH_ALGO,
                      run_started, cur.observed)))
  /\ pc' = "loop"
  /\ cur' = NoCur
  /\ UNCHANGED << fs, db_exists, now, mode, args, run_started, walk,
                  verified_hashes, verified_paths, report, exit_code, edits,
                  runs, quiet, start_db,
                  repeat, versions, recovery >>

FinalCommitDue_never(n) == FALSE

\* line 273
FinalCommitDue(n) == n # 0

\* lines 273-297 and main: the walk is over; final commit, report, exit 0
IndexFinish ==
  /\ mode = "index"
  /\ pc = "loop"
  /\ \E r \in iter_files(walk, fs) : r.yield = NoPath
  /\ db' = IF FinalCommitDue(processed_since_commit) THEN conn ELSE db
  /\ conn' = db'
  /\ report' = [ mode |-> "index", root |-> args.root,
                 exclude_exts |-> args.exclude_exts,
                 run_started |-> run_started, stats |-> stats,
                 details |-> details ]
  /\ exit_code' = 0
  /\ mode' = "idle"
  /\ args' = NoArgs
  /\ run_started' = 0
  /\ walk' = NoWalk
  /\ stats' = NoStats
  /\ details' = NoDetails
  /\ processed_since_commit' = 0
  /\ UNCHANGED << fs, db_exists, now, pc, cur, verified_hashes,
                  verified_paths, edits, runs, quiet, start_db,
                  repeat, versions, recovery >>

\* the process dies inside the loop: conn.close() without commit rolls the
\* open transaction back
Crash ==
  /\ mode = "index"
  /\ conn' = db
  /\ recovery' = IF recovery.active THEN recovery
                 ELSE IF quiet
                 THEN [ active |-> TRUE, args |-> args, db0 |-> start_db ]
                 ELSE NoRecovery
  /\ report' = NoReport
  /\ exit_code' = 1
  /\ mode' = "idle"
  /\ pc' = "loop"
  /\ args' = NoArgs
  /\ run_started' = 0
  /\ walk' = NoWalk
  /\ cur' = NoCur
  /\ stats' = NoStats
  /\ details' = NoDetails
  /\ processed_since_commit' = 0
  /\ UNCHANGED << fs, db_exists, db, now, verified_hashes, verified_paths,
                  edits, runs, quiet, start_db,
                  repeat, versions >>

\* --------------------------------------------------------------- verifier
rows_by_hash_none(store, digest) == {}

\* lines 368-371: SELECT path, filename, hash_algo FROM files WHERE hash = ?
rows_by_hash(store, digest) ==
  { q \in DOMAIN store : store[q].hash = digest }

Candidates_first(store, rows, filename) == rows

\* lines 382-396: the candidates the loop may settle on: the first row whose
\* filename equals the file's, else rows_by_hash[0]; the order of the rows is
\* the database's, so any of them may come first
Candidates(store, rows, filename) ==
  LET same == { q \in rows : store[q].filename = filename }
  IN IF same # {} THEN same ELSE rows

IsMissing_bypath(store, q, root, excl, vhashes, vpaths, files) ==
  /\ is_under_root(q, root)
  /\ Lower(Suffix(q)) \notin excl
  /\ q \notin vpaths
  /\ q \notin DOMAIN files

IsMissing_exists(store, q, root, excl, vhashes, vpaths, files) ==
  /\ is_under_root(q, root)
  /\ Lower(Suffix(q)) \notin excl
  /\ store[q].hash \notin vhashes
  /\ q \notin vpaths
  /\ q \in DOMAIN files

\* lines 452-467: the record at q is counted missing
IsMissing(store, q, root, excl, vhashes, vpaths, files) ==
  /\ is_under_root(q, root)
  /\ Lower(Suffix(q)) \notin excl
  /\ store[q].hash \notin vhashes
  /\ q \notin vpaths
  /\ q \notin DOMAIN files

VerifyExit_untracked(s) ==
  IF s.mismatched # 0 \/ s.missing # 0 \/ s.errors # 0 \/ s.untracked # 0
  THEN 1 ELSE 0

\* main, lines 651-654
VerifyExit(s) ==
  IF s.mismatched # 0 \/ s.missing # 0 \/ s.errors # 0 THEN 1 ELSE 0

\* main (verify): root checked, open_database_readonly, db_entries
VerifyStart(root, excl) ==
  /\ mode = "idle"
  /\ runs < MaxRuns
  /\ root_exists(root, fs)
  /\ root_is_dir(root, fs)
  /\ db_exists
  /\ runs' = runs + 1
  /\ run_started' = now
  /\ mode' = "verify"
  /\ pc' = "loop"
  /\ args' = [ command |-> "verify", root |-> root, exclude_exts |-> excl ]
  /\ walk' = [ stack |-> <<root>>, entries |-> <<>> ]
  /\ cur' = NoCur
  /\ stats' = VerifyStats0(Cardinality(DOMAIN db))
  /\ details' = VerifyDetails0
  /\ verified_hashes' = {}
  /\ verified_paths' = {}
  /\ report' = NoReport
  /\ exit_code' = -1
  /\ quiet' = TRUE
  /\ start_db' = db
  /\ repeat' = FALSE
  /\ recovery' = NoRecovery
  /\ UNCHANGED << fs, storeVars, now, processed_since_commit, edits,
                  versions >>

\* the command ends in sys.exit(1) before index_files or verify_files has
\* walked a file or opened a connection; args keeps what it was given
Abort(command, root) ==
  /\ mode = "idle"
  /\ runs < MaxRuns
  /\ runs' = runs + 1
  /\ args' = [ command |-> command, root |-> root, exclude_exts |-> {} ]
  /\ report' = NoReport
  /\ exit_code' = 1
  /\ UNCHANGED << fs, storeVars, now, mode, pc, run_started, walk, cur,
                  stats, details, processed_since_commit, verified_hashes,
                  verified_paths, edits, quiet, start_db,
                  repeat, versions, recovery >>

\* main, lines 611-613 and 630-632: the root does not exist
RootMissing(command, root) ==
  /\ ~root_exists(root, fs)
  /\ Abort(command, root)

\* main, lines 614-616 and 633-635: the root is not a directory
RootNotDirectory(command, root) ==
  /\ root_exists(root, fs)
  /\ ~root_is_dir(root, fs)
  /\ Abort(command, root)

\* open_database_readonly raises FileNotFoundError; main exits 1
VerifyNoDatabase(root) ==
  /\ root_exists(root, fs)
  /\ root_is_dir(root, fs)
  /\ ~db_exists
  /\ Abort("verify", root)

\* lines 337-346: the generator yields a file; exclusion; scanned
VerifyNext ==
  /\ mode = "verify"
  /\ pc = "loop"
  /\ \E r \in iter_files(walk, fs) :
       /\ r.yield # NoPath
       /\ walk' = r.walk
       /\ IF Lower(Suffix(r.yield)) \in args.exclude_exts
          THEN /\ stats' = Inc(stats, "excluded")
               /\ UNCHANGED << pc, cur >>
          ELSE /\ stats' = Inc(stats, "scanned")
               /\ cur' = [ path |-> r.yield ]
               /\ pc' = "stat"
  /\ UNCHANGED << fs, storeVars, now, mode, args, run_started, details,
                  processed_since_commit, verified_hashes, verified_paths,
                  report, exit_code, edits, runs, quiet, start_db,
                  repeat, versions, recovery >>

VerifyStat_shortcut ==
  /\ mode = "verify"
  /\ pc = "stat"
  /\ LET p == cur.path IN
     IF p \notin DOMAIN fs
     THEN /\ stats' = Inc(stats, "errors")
          /\ details' = Add(details, "errors", [ path |-> p, error |-> "stat" ])
          /\ pc' = "loop"
          /\ cur' = NoCur
     ELSE IF Unchanged(db, p, st_size(fs[p]), fs[p].mtime)
     THEN /\ stats' = Inc(stats, "verified")
          /\ details' = Add(details, "verified", p)
          /\ pc' = "loop"
          /\ cur' = NoCur
     ELSE /\ cur' = [ path |-> p, size |-> st_size(fs[p]),
                      mtime_ns |-> fs[p].mtime ]
          /\ pc' = "hash"
          /\ UNCHANGED << stats, details >>
  /\ UNCHANGED << fs, storeVars, now, mode, args, run_started, walk,
                  processed_since_commit, verified_hashes, verified_paths,
                  report, exit_code, edits, runs, quiet, start_db,
                  repeat, versions, recovery >>

\* lines 347-354
VerifyStat ==
  /\ mode = "verify"
  /\ pc = "stat"
  /\ LET p == cur.path IN
     IF p \notin DOMAIN fs
     THEN /\ stats' = Inc(stats, "errors")
          /\ details' = Add(details, "errors", [ path |-> p, error |-> "stat" ])
          /\ pc' = "loop"
          /\ cur' = NoCur
     ELSE /\ cur' = [ path |-> p, size |-> st_size(fs[p]),
                      mtime_ns |-> fs[p].mtime ]
          /\ pc' = "hash"
          /\ UNCHANGED << stats, details >>
  /\ UNCHANGED << fs, storeVars, now, mode, args, run_started, walk,
                  processed_since_commit, verified_hashes, verified_paths,
                  report, exit_code, edits, runs, quiet, start_db,
                  repeat, versions, recovery >>

hash_differs_never(row, digest) == FALSE

\* line 402: row_by_path["hash"] != digest
hash_differs(row, digest) == row.hash # digest

Settle_fallthrough(p, row) ==
  IF row.hash_algo # DEFAULT_HASH_ALGO
  THEN /\ stats' = Inc(Inc(stats, "errors"), "verified")
       /\ details' = Add(Add(details, "errors", [ path |-> p, error |-> "algo" ]),
                         "verified", p)
  ELSE /\ stats' = Inc(stats, "verified")
       /\ details' = Add(details, "verified", p)

\* lines 429-447: the row is settled; its algorithm is checked
Settle(p, row) ==
  IF row.hash_algo # DEFAULT_HASH_ALGO
  THEN /\ stats' = Inc(stats, "errors")
       /\ details' = Add(details, "errors", [ path |-> p, error |-> "algo" ])
  ELSE /\ stats' = Inc(stats, "verified")
       /\ details' = Add(details, "verified", p)

\* lines 356-447: hash the file and reconcile it with the store
VerifyHash ==
  /\ mode = "verify"
  /\ pc = "hash"
  /\ LET p == cur.path IN
     IF p \notin DOMAIN fs
     THEN /\ stats' = Inc(stats, "errors")
          /\ details' = Add(details, "errors", [ path |-> p, error |-> "hash" ])
          /\ UNCHANGED << verified_hashes, verified_paths >>
     ELSE LET digest == compute_hash(fs[p].bytes)
              rows == rows_by_hash(db, digest)
          IN IF rows # {}
             THEN \E c \in Candidates(db, rows, Filename(p)) :
                    /\ verified_hashes' = verified_hashes \cup {digest}
                    /\ verified_paths' = verified_paths \cup {c}
                    /\ Settle(p, db[c])
             ELSE IF p \in DOMAIN db
             THEN /\ verified_paths' = verified_paths \cup {p}
                  /\ UNCHANGED verified_hashes
                  /\ IF hash_differs(db[p], digest)
                     THEN /\ stats' = Inc(stats, "mismatched")
                          /\ details' = Add(details, "mismatched",
                               [ path |-> p, size |-> cur.size,
                                 mtime_ns |-> cur.mtime_ns,
                                 expected_hash |-> db[p].hash,
                                 actual_hash |-> digest ])
                     ELSE Settle(p, db[p])
             ELSE /\ stats' = Inc(stats, "untracked")
                  /\ details' = Add(details, "untracked",
                       [ path |-> p, size |-> cur.size,
                         mtime_ns |-> cur.mtime_ns ])
                  /\ UNCHANGED << verified_hashes, verified_paths >>
  /\ pc' = "loop"
  /\ cur' = NoCur
  /\ UNCHANGED << fs, storeVars, now, mode, args, run_started, walk,
                  processed_since_commit, report, exit_code, edits, runs,
                  quiet, start_db,
                  repeat, versions, recovery >>

VerifyFinish_prune ==
  /\ mode = "verify"
  /\ pc = "loop"
  /\ \E r \in iter_files(walk, fs) : r.yield = NoPath
  /\ LET gone == { q \in DOMAIN db :
                     IsMissing(db, q, args.root, args.exclude_exts,
                               verified_hashes, verified_paths, fs) }
         final == [ stats EXCEPT !.missing = Cardinality(gone) ]
     IN /\ report' = [ mode |-> "verify", root |-> args.root,
                       exclude_exts |-> args.exclude_exts,
                       run_started |-> run_started, stats |-> final,
                       details |-> [ details EXCEPT
                                       !.missing = { [ path |-> q ] : q \in gone } ] ]
        /\ exit_code' = VerifyExit(final)
        /\ db' = [ q \in DOMAIN db \ gone |-> db[q] ]
        /\ conn' = db'
  /\ mode' = "idle"
  /\ args' = NoArgs
  /\ run_started' = 0
  /\ walk' = NoWalk
  /\ stats' = NoStats
  /\ details' = NoDetails
  /\ verified_hashes' = {}
  /\ verified_paths' = {}
  /\ UNCHANGED << fs, db_exists, now, pc, cur, processed_since_commit, edits,
                  runs, quiet, start_db,
                  repeat, versions, recovery >>

\* lines 449-499 and main: the missing sweep, the report, the exit code
VerifyFinish ==
  /\ mode = "verify"
  /\ pc = "loop"
  /\ \E r \in iter_files(walk, fs) : r.yield = NoPath
  /\ LET gone == { q \in DOMAIN db :
                     IsMissing(db, q, args.root, args.exclude_exts,
                               verified_hashes, verified_paths, fs) }
         final == [ stats EXCEPT !.missing = Cardinality(gone) ]
     IN /\ report' = [ mode |-> "verify", root |-> args.root,
                       exclude_exts |-> args.exclude_exts,
                       run_started |-> run_started, stats |-> final,
                       details |-> [ details EXCEPT
                                       !.missing = { [ path |-> q ] : q \in gone } ] ]
        /\ exit_code' = VerifyExit(final)
  /\ mode' = "idle"
  /\ args' = NoArgs
  /\ run_started' = 0
  /\ walk' = NoWalk
  /\ stats' = NoStats
  /\ details' = NoDetails
  /\ verified_hashes' = {}
  /\ verified_paths' = {}
  /\ UNCHANGED << fs, storeVars, now, pc, cur, processed_since_commit, edits,
                  runs, quiet, start_db,
                  repeat, versions, recovery >>

\* ---------------------------------------------------------- specification
\* the files change while no run is active
Environment ==
  /\ mode = "idle"
  /\ \/ \E p \in Paths, b \in Bytes, m \in 1..MaxMtime : WriteFile(p, b, m)
     \/ \E p \in Paths : DeleteFile(p)
     \/ \E a \in Paths, b \in Paths : MoveFile(a, b)

\* the files change while a run is walking the tree
Race ==
  /\ mode # "idle"
  /\ \/ \E p \in Paths, b \in Bytes, m \in 1..MaxMtime : WriteFile(p, b, m)
     \/ \E p \in Paths : DeleteFile(p)
     \/ \E a \in Paths, b \in Paths : MoveFile(a, b)

IndexRun ==
  \/ IndexNext
  \/ IndexStat
  \/ IndexHash
  \/ IndexFinish
  \/ Crash

VerifyRun ==
  \/ VerifyNext
  \/ VerifyStat
  \/ VerifyHash
  \/ VerifyFinish

Indexer ==
  \/ \E excl \in ExcludeSets : IndexStart(TOP, excl)
  \/ IndexRun

Verifier ==
  \/ \E excl \in ExcludeSets : VerifyStart(TOP, excl)
  \/ VerifyNoDatabase(TOP)
  \/ VerifyRun

\* commands given another root than TOP
OtherRoot ==
  \E root \in RootArgs \ {TOP} :
    \/ IndexStart(root, {})
    \/ VerifyStart(root, {})
    \/ VerifyNoDatabase(root)
    \/ \E command \in { "index", "verify" } :
         \/ RootMissing(command, root)
         \/ RootNotDirectory(command, root)

Next == Environment \/ Indexer \/ Verifier \/ OtherRoot

\* runs over a tree that changes only between runs
Spec == Init /\ [][Next]_vars

\* runs over a tree that also changes during a run; one configuration
NextRace ==
  \/ Environment
  \/ Race
  \/ IndexStart(TOP, {})
  \/ IndexRun
  \/ VerifyStart(TOP, {})
  \/ VerifyRun

SpecRace == Init /\ [][NextRace]_vars

\* index runs over the large tree, which does not change
InitBatch ==
  /\ fs = [ p \in BatchPaths |-> File(<<0>>, 1) ]
  /\ db_exists = FALSE
  /\ db = EmptyStore
  /\ conn = EmptyStore
  /\ now = 1
  /\ IdleRun

NextBatch ==
  \/ IndexStart(TOP, {})
  \/ IndexRun

SpecBatch == InitBatch /\ [][NextBatch]_vars

\* a store filled by an earlier revision: every file of the tree has a row
\* tagged with that revision's algorithm, holding either another function's
\* digest ("md5") or the same digest under another spelling of the tag
LegacyRow(p, f, algo) ==
  Row(p, st_size(f), f.mtime,
      IF algo = "md5" THEN legacy_hash(f.bytes) ELSE compute_hash(f.bytes),
      algo, 0, f.bytes)

LegacyAlgos == { "md5", "SHA256" }

InitLegacy ==
  /\ \E present \in SUBSET Paths :
       /\ present # {}
       /\ fs \in [ present -> { File(b, 1) : b \in InitBytes } ]
  /\ \E algo \in LegacyAlgos :
       db = [ p \in DOMAIN fs |-> LegacyRow(p, fs[p], algo) ]
  /\ db_exists = TRUE
  /\ conn = db
  /\ now = 1
  /\ IdleRun

\* the store exists from the start, so no run finds the database missing
NextLegacy ==
  \/ Environment
  \/ Indexer
  \/ \E excl \in ExcludeSets : VerifyStart(TOP, excl)
  \/ VerifyRun

SpecLegacy == InitLegacy /\ [][NextLegacy]_vars

\* a tree that an index run at time 1 recorded in full and in which one file
\* has since been rewritten (possibly with what it held)
InitIndexed ==
  /\ \E present \in SUBSET Paths :
       /\ present # {}
       /\ \E indexed \in [ present -> { File(b, 1) : b \in InitBytes } ] :
            /\ db = [ p \in present |->
                        Row(p, st_size(indexed[p]), indexed[p].mtime,
                            compute_hash(indexed[p].bytes), DEFAULT_HASH_ALGO,
                            1, indexed[p].bytes) ]
            /\ \E p \in present, b \in Bytes, m \in 1..MaxMtime :
                 fs = [ indexed EXCEPT ![p] = File(b, m) ]
            /\ versions = { Version(p, indexed[p]) : p \in present }
                            \cup { Version(p, fs[p]) : p \in present }
  /\ db_exists = TRUE
  /\ conn = db
  /\ now = 1
  /\ mode = "idle"
  /\ pc = "loop"
  /\ args = NoArgs
  /\ run_started = 0
  /\ walk = NoWalk
  /\ cur = NoCur
  /\ stats = NoStats
  /\ details = NoDetails
  /\ processed_since_commit = 0
  /\ verified_hashes = {}
  /\ verified_paths = {}
  /\ report = NoReport
  /\ exit_code = 0
  /\ edits = 1
  /\ runs = 0
  /\ quiet = FALSE
  /\ start_db = EmptyStore
  /\ repeat = FALSE
  /\ recovery = NoRecovery

\* index and verify runs over that tree, which does not change any more
NextIndexed ==
  \/ Indexer
  \/ \E excl \in ExcludeSets : VerifyStart(TOP, excl)
  \/ VerifyRun

SpecIndexed == InitIndexed /\ [][NextIndexed]_vars

\* index runs over any tree of WalkPaths, from TOP or from the directory
\* old; the tree does not change and a started run keeps being scheduled
InitWalk ==
  /\ \E present \in SUBSET WalkPaths :
       fs = [ p \in present |-> File(<<0>>, 1) ]
  /\ db_exists = FALSE
  /\ db = EmptyStore
  /\ conn = EmptyStore
  /\ now = 1
  /\ IdleRun

NextWalk ==
  \/ \E root \in { TOP, "old" } : IndexStart(root, {})
  \/ IndexNext
  \/ IndexStat
  \/ IndexHash
  \/ IndexFinish

SpecWalk == InitWalk /\ [][NextWalk]_vars /\ WF_vars(NextWalk)

\* main before line 618: the arguments are parsed, no run has begun
InitParse ==
  /\ fs = EmptyStore
  /\ db_exists = FALSE
  /\ db = EmptyStore
  /\ conn = EmptyStore
  /\ now = 1
  /\ mode = "idle"
  /\ pc = "args"
  /\ \E a \in ExcludeArgs :
       args = [ command |-> "index", root |-> TOP, exclude_ext |-> a,
                exclude_exts |-> {} ]
  /\ run_started = 0
  /\ walk = NoWalk
  /\ cur = NoCur
  /\ stats = NoStats
  /\ details = NoDetails
  /\ processed_since_commit = 0
  /\ verified_hashes = {}
  /\ verified_paths = {}
  /\ report = NoReport
  /\ exit_code = -1
  /\ edits = 0
  /\ runs = 0
  /\ quiet = TRUE
  /\ start_db = EmptyStore
  /\ repeat = FALSE
  /\ versions = {}
  /\ recovery = NoRecovery

\* main, line 618 (and 637)
ParseExclude ==
  /\ pc = "args"
  /\ args' = [ args EXCEPT
                 !.exclude_exts = parse_exclude_extensions(args.exclude_ext) ]
  /\ pc' = "loop"
  /\ UNCHANGED << fs, storeVars, now, mode, run_started, walk, cur, stats,
                  details, processed_since_commit, verified_hashes,
                  verified_paths, report, exit_code, edits, runs, quiet,
                  start_db, repeat, versions, recovery >>

\* the exclusion arguments of one command, parsed
SpecParse == InitParse /\ [][ParseExclude]_vars

\* ------------------------------------------------------- claims: helpers
\* the report on hand is of a finished verify / index run, and neither the
\* files nor the store changed since that run began
VerifyDone == mode = "idle" /\ report.mode = "verify" /\ quiet
IndexDone == mode = "idle" /\ report.mode = "index" /\ quiet

InScope(p) ==
  /\ is_under_root(p, report.root)
  /\ Lower(Suffix(p)) \notin report.exclude_exts

PathsOf(entries) == { e.path : e \in entries }

Digest(p) == compute_hash(fs[p].bytes)

\* the file at p is as the row at p recorded it
AsIndexed(p) ==
  /\ p \in DOMAIN db
  /\ p \in DOMAIN fs
  /\ fs[p].bytes = db[p].stat_bytes
  /\ fs[p].mtime = db[p].mtime_ns

\* the file at p has other bytes and another mtime than the row at p recorded
Modified(p) ==
  /\ p \in DOMAIN db
  /\ p \in DOMAIN fs
  /\ Digest(p) # db[p].hash
  /\ fs[p].mtime # db[p].mtime_ns

\* the file recorded at a is gone from a and its bytes are at b, and at no
\* other path
Moved(a, b) ==
  /\ a \in DOMAIN db
  /\ a \notin DOMAIN fs
  /\ b \in DOMAIN fs
  /\ Digest(b) = db[a].hash
  /\ \A q \in DOMAIN fs \ {b} : Digest(q) # db[a].hash

\* the file recorded at a is gone and no scanned file has its bytes
Deleted(a) ==
  /\ a \in DOMAIN db
  /\ a \notin DOMAIN fs
  /\ \A q \in DOMAIN fs : InScope(q) => Digest(q) # db[a].hash

\* ------------------------------------------------------------ claims
\* C1 (as claimed): after a verify run, every indexed file whose bytes and
\* mtime were changed in place is listed under mismatched, with expected_hash
\* the stored hash and actual_hash the digest of the new bytes, whatever the
\* new bytes are.
C1_ModificationReported ==
  VerifyDone =>
    \A p \in DOMAIN fs :
      (InScope(p) /\ Modified(p)) =>
        \E e \in report.details.mismatched :
          /\ e.path = p
          /\ e.expected_hash = db[p].hash
          /\ e.actual_hash = Digest(p)

\* C2: after a verify run, a file moved from a to b (no other file has its
\* bytes) is counted verified at b, a is not reported missing and b is not
\* reported untracked; when it is the only file and the only record, the
\* counters are verified=1, missing=0, untracked=0.
C2_MoveTolerance ==
  VerifyDone =>
    \A a \in DOMAIN db, b \in DOMAIN fs :
      (InScope(a) /\ InScope(b) /\ Moved(a, b)) =>
        /\ b \in report.details.verified
        /\ a \notin PathsOf(report.details.missing)
        /\ b \notin PathsOf(report.details.untracked)
        /\ (DOMAIN fs = {b} /\ DOMAIN db = {a}) =>
             /\ report.stats.verified = 1
             /\ report.stats.missing = 0
             /\ report.stats.untracked = 0

C2_Witness ==
  /\ VerifyDone
  /\ \E a \in DOMAIN db, b \in DOMAIN fs :
       /\ InScope(a) /\ InScope(b) /\ Moved(a, b)
       /\ DOMAIN fs = {b} /\ DOMAIN db = {a}
       /\ report.stats.verified = 1

\* C3: after a verify run, a record whose file is gone and whose hash no
\* scanned file has is reported missing, once, under its stored path.
C3_MissingDetection ==
  VerifyDone =>
    /\ report.stats.missing = Cardinality(report.details.missing)
    /\ \A a \in DOMAIN db :
         (InScope(a) /\ Deleted(a)) => [ path |-> a ] \in report.details.missing

C3_Witness ==
  /\ VerifyDone
  /\ \E a \in DOMAIN db : InScope(a) /\ Deleted(a)
  /\ report.stats.missing = 1

\* C4: after a verify run, every file that is still as it was indexed is
\* counted verified, its record is not reported missing and its path is not
\* reported untracked.
C4_RoundTrip ==
  VerifyDone =>
    \A p \in DOMAIN fs :
      (InScope(p) /\ AsIndexed(p)) =>
        /\ p \in report.details.verified
        /\ p \notin PathsOf(report.details.missing)
        /\ p \notin PathsOf(report.details.untracked)
        /\ p \notin PathsOf(report.details.mismatched)

C4_Witness ==
  /\ VerifyDone
  /\ \E p \in DOMAIN fs : InScope(p) /\ AsIndexed(p)
  /\ \E q \in DOMAIN fs : InScope(q) /\ ~AsIndexed(q)

\* C5: an index run that repeats the index run before it, with the same
\* arguments and no file changed since that run began, reports hashed_new=0,
\* hashed_updated=0, unchanged=N for the N files in scope, and hashes nothing
\* (no new, no updated, no hash error).
C5_IndexIdempotent ==
  (IndexDone /\ repeat) =>
    /\ report.stats.hashed_new = 0
    /\ report.stats.hashed_updated = 0
    /\ report.stats.errors = 0
    /\ report.stats.unchanged = Cardinality({ p \in DOMAIN fs : InScope(p) })
    /\ report.details.added = {}
    /\ report.details.updated = {}

C5_Witness ==
  /\ IndexDone
  /\ repeat
  /\ report.stats.unchanged >= 2

\* C6: after an index run, every file in scope that had a record whose size
\* or mtime differed is listed under updated (not added) with previous_hash
\* the hash stored before the run, and its record now holds the digest of its
\* bytes; every file in scope that had no record is listed under added; the
\* counters count the lists.
C6_IndexClassification ==
  IndexDone =>
    /\ report.stats.hashed_updated = Cardinality(report.details.updated)
    /\ report.stats.hashed_new = Cardinality(report.details.added)
    /\ \A p \in DOMAIN fs :
         InScope(p) =>
           /\ ( /\ p \in DOMAIN start_db
                /\ \/ start_db[p].size # st_size(fs[p])
                   \/ start_db[p].mtime_ns # fs[p].mtime )
              => /\ \E e \in report.details.updated :
                      e.path = p /\ e.previous_hash = start_db[p].hash
                 /\ p \notin PathsOf(report.details.added)
                 /\ p \in DOMAIN db
                 /\ db[p].hash = Digest(p)
           /\ p \notin DOMAIN start_db
              => /\ p \in PathsOf(report.details.added)
                 /\ p \notin PathsOf(report.details.updated)

C6_Witness ==
  /\ IndexDone
  /\ \E p \in DOMAIN fs :
       /\ InScope(p)
       /\ p \in DOMAIN start_db
       /\ start_db[p].size # st_size(fs[p])
       /\ start_db[p].hash # db[p].hash
  /\ report.stats.hashed_new = 1

\* the rows the open connection holds that are not committed
Uncommitted ==
  { p \in DOMAIN conn : IF p \in DOMAIN db THEN conn[p] # db[p] ELSE TRUE }

\* C7: at every point the rows written and not yet committed number at most
\* COMMIT_EVERY, and a step in which the index run dies leaves the committed
\* rows as they were and nothing pending.
C7_BatchedWrites ==
  /\ [](Cardinality(Uncommitted) <= COMMIT_EVERY)
  /\ [][ (mode = "index" /\ mode' = "idle" /\ exit_code' = 1)
           => (db' = db /\ conn' = db) ]_vars

\* an index run died after it had committed one full batch
C7_Witness ==
  /\ mode = "idle"
  /\ exit_code = 1
  /\ Cardinality(DOMAIN db) = COMMIT_EVERY
  /\ Cardinality(DOMAIN fs) > COMMIT_EVERY

\* size, mtime, hash and hash_algo of a row
Core(r) ==
  [ size |-> r.size, mtime_ns |-> r.mtime_ns, hash |-> r.hash,
    hash_algo |-> r.hash_algo ]

\* what one uninterrupted index run over the files leaves at p, given the
\* rows db0 it started from
Uninterrupted(db0, p) ==
  IF p \in DOMAIN fs /\ InScope(p)
       /\ ~Unchanged(db0, p, st_size(fs[p]), fs[p].mtime)
  THEN [ size |-> st_size(fs[p]), mtime_ns |-> fs[p].mtime,
         hash |-> Digest(p), hash_algo |-> DEFAULT_HASH_ALGO ]
  ELSE Core(db0[p])

\* C8: when an index run that follows interrupted runs with the same
\* arguments finishes, and no file changed since the first of them began, the
\* store holds the rows (path, size, mtime, hash, hash_algo) that one
\* uninterrupted run from the store of that time would have left.
C8_IdempotentRecovery ==
  (IndexDone /\ recovery.active) =>
    /\ DOMAIN db =
         DOMAIN recovery.db0 \cup { p \in DOMAIN fs : InScope(p) }
    /\ \A p \in DOMAIN db : Core(db[p]) = Uninterrupted(recovery.db0, p)

\* the interrupted run had committed a batch, the rerun hashed the rest
C8_Witness ==
  /\ IndexDone
  /\ recovery.active
  /\ report.stats.unchanged = COMMIT_EVERY
  /\ report.stats.hashed_new = Cardinality(DOMAIN fs) - COMMIT_EVERY
  /\ report.stats.hashed_new > 0

\* the rows verify may reconcile the file at p against
Reconciled(p) ==
  LET rows == rows_by_hash(db, Digest(p))
  IN IF rows # {} THEN Candidates(db, rows, Filename(p))
     ELSE IF p \in DOMAIN db THEN {p} ELSE {}

\* C9 (as claimed): after a verify run, every scanned file reconciled against
\* a row of another hash_algo, found by hash or by path, is listed under
\* errors and neither counted verified nor listed under mismatched.
C9_LegacyRejected ==
  VerifyDone =>
    \A p \in DOMAIN fs :
      ( /\ InScope(p)
        /\ Reconciled(p) # {}
        /\ \A c \in Reconciled(p) : db[c].hash_algo # DEFAULT_HASH_ALGO )
      => /\ p \in PathsOf(report.details.errors)
         /\ p \notin report.details.verified
         /\ p \notin PathsOf(report.details.mismatched)

\* C10 (as claimed): in every store state each row's hash is the digest of
\* bytes the file held at some time when it had the size and mtime of the
\* row.
C10_RecordIntegrity ==
  \A p \in DOMAIN db :
    \E v \in versions :
      /\ v.path = p
      /\ v.mtime = db[p].mtime_ns
      /\ Len(v.bytes) = db[p].size
      /\ compute_hash(v.bytes) = db[p].hash

\* C11: from one store state to the next, every path that has a record keeps
\* a record, whatever run or file change the step belongs to.
C11_NeverDeleted ==
  [][ DOMAIN db \subseteq DOMAIN db' ]_vars

\* an index run finished while a record's file was gone from disk and
\* another record's file had an excluded extension
C11_Witness ==
  /\ IndexDone
  /\ \E p \in DOMAIN db : p \notin DOMAIN fs
  /\ \E q \in DOMAIN db :
       q \in DOMAIN fs /\ Lower(Suffix(q)) \in report.exclude_exts

\* C12: the rows of the table are counted by path: while an index run is
\* writing and after it has finished, the table holds one row for each path
\* it held when the run began and one for each file classified new, so a file
\* that already had a row adds none; the row of an updated file holds the
\* size, mtime and hash the run reported for it.
C12_PathUniqueness ==
  /\ mode = "index" =>
       Cardinality(DOMAIN conn) = Cardinality(DOMAIN start_db) + stats.hashed_new
  /\ IndexDone =>
       /\ Cardinality(DOMAIN db) =
            Cardinality(DOMAIN start_db) + report.stats.hashed_new
       /\ \A e \in report.details.updated :
            /\ e.path \in DOMAIN start_db
            /\ db[e.path].size = e.size
            /\ db[e.path].mtime_ns = e.mtime_ns
            /\ db[e.path].hash = e.hash

\* an index run rewrote the row of a path that had one and added a row
C12_Witness ==
  /\ IndexDone
  /\ report.stats.hashed_updated = 1
  /\ report.stats.hashed_new = 1
  /\ Cardinality(DOMAIN db) = Cardinality(DOMAIN start_db) + 1

\* C13: every step of a verify run, its first and its last included, leaves
\* the rows of the store (committed and as seen through a connection) and the
\* existence of the database file as they were.
C13_VerifyReadOnly ==
  [][ (mode = "verify" \/ mode' = "verify")
        => (db' = db /\ conn' = conn /\ db_exists' = db_exists) ]_vars

\* a verify run that found drift has finished over a store that has rows
C13_Witness ==
  /\ VerifyDone
  /\ DOMAIN db # {}
  /\ report.stats.verified > 0
  /\ report.stats.missing > 0
  /\ db = start_db

\* the paths any detail list of the report on hand names
Detailed ==
  IF report.mode = "index"
  THEN PathsOf(report.details.added) \cup PathsOf(report.details.updated)
         \cup PathsOf(report.details.errors)
  ELSE PathsOf(report.details.mismatched) \cup PathsOf(report.details.missing)
         \cup PathsOf(report.details.untracked)
         \cup PathsOf(report.details.errors) \cup report.details.verified

\* the extension of p, whatever its case, is one of the exclusion set
Excluded(p) ==
  \E e \in report.exclude_exts :
    <<Suffix(p), e>> \in { <<".tmp", ".tmp">>, <<".TMP", ".tmp">>,
                          <<".jpg", ".jpg">>, <<".JPG", ".jpg">> }

\* the walk of the reported run yields p when p is a file
Walked(p) == report.root = TOP \/ p[1] = report.root

\* the counters that classify a scanned file
Outcomes ==
  IF report.mode = "index"
  THEN report.stats.hashed_new + report.stats.hashed_updated
         + report.stats.unchanged + report.stats.errors
  ELSE report.stats.verified + report.stats.mismatched
         + report.stats.untracked + report.stats.errors

\* C14: after an index or a verify run, excluded counts the files whose
\* lower-cased extension is in the exclusion set, scanned and the outcome
\* counters count the other files only, no detail list (missing included)
\* names a path with an excluded extension, and the index run left the
\* record of every such path as it was (none written).
C14_ExclusionSymmetry ==
  (IndexDone \/ VerifyDone) =>
    /\ report.stats.excluded =
         Cardinality({ p \in DOMAIN fs : Walked(p) /\ Excluded(p) })
    /\ report.stats.scanned =
         Cardinality({ p \in DOMAIN fs : Walked(p) /\ ~Excluded(p) })
    /\ Outcomes = report.stats.scanned
    /\ \A p \in Detailed : ~Excluded(p)
    /\ \A p \in Paths :
         Excluded(p) =>
           IF p \in DOMAIN start_db
           THEN p \in DOMAIN db /\ db[p] = start_db[p]
           ELSE p \notin DOMAIN db

\* a verify run excluded a file on disk that has a record and scanned others
C14_Witness ==
  /\ VerifyDone
  /\ report.exclude_exts = {".tmp"}
  /\ report.stats.excluded = 1
  /\ \E p \in DOMAIN db : p \in DOMAIN fs /\ Excluded(p)
  /\ report.stats.scanned > 0

\* the report on hand is of a finished run, whatever happened during it
RunDone == mode = "idle" /\ report.mode \in { "index", "verify" }

\* the paths of the files whose stat or hash failed in the reported run
Failed ==
  { e.path : e \in { x \in report.details.errors : x.error \in { "stat", "hash" } } }

\* the paths the reported run classified otherwise than as an error
Classified ==
  IF report.mode = "index"
  THEN PathsOf(report.details.added) \cup PathsOf(report.details.updated)
  ELSE report.details.verified \cup PathsOf(report.details.mismatched)
         \cup PathsOf(report.details.untracked)

\* C15 (as claimed): after an index or a verify run, a file whose stat or
\* hash failed is counted once under errors, is in no other outcome list and
\* is not reported missing, and every file the walk yielded got exactly one
\* outcome.
C15_ErrorIsolation ==
  RunDone =>
    /\ report.stats.errors = Cardinality(report.details.errors)
    /\ Outcomes = report.stats.scanned
    /\ Failed \cap Classified = {}
    /\ report.mode = "verify" =>
         Failed \cap PathsOf(report.details.missing) = {}

\* C16: after an index run, every file under the root whose extension is not
\* excluded has a record whose last_seen is the start time of that run,
\* whether the run hashed it or found it unchanged.
C16_LastSeenFresh ==
  IndexDone =>
    \A p \in DOMAIN fs :
      InScope(p) =>
        /\ p \in DOMAIN db
        /\ db[p].last_seen = report.run_started

\* a later index run found a file unchanged and moved its last_seen on
C16_Witness ==
  /\ IndexDone
  /\ report.stats.unchanged > 0
  /\ \E p \in DOMAIN fs :
       /\ InScope(p)
       /\ p \in DOMAIN start_db
       /\ Core(start_db[p]) = Core(db[p])
       /\ start_db[p].last_seen < db[p].last_seen

C18_VerifyResult ==
  (mode = "idle" /\ report.mode = "verify") =>
    exit_code =
      IF report.stats.mismatched + report.stats.missing + report.stats.errors > 0
      THEN 1 ELSE 0

\* a verify run that found an untracked file and nothing else wrong
C18_Witness ==
  /\ mode = "idle"
  /\ report.mode = "verify"
  /\ report.stats.untracked > 0
  /\ report.stats.verified > 0
  /\ exit_code = 0

\* the root names a directory that exists
RootValid(root) == root = TOP \/ \E p \in DOMAIN fs : p[1] = root

\* C19: a command given a root that is missing or is not a directory, or a
\* verify command given a store file that does not exist, ends with exit
\* code 1 in the step that starts it: no run begins and no file is walked,
\* no report is produced, and the store is neither created nor modified.
C19_FatalPreconditions ==
  [][ ( /\ runs' # runs
        /\ \/ ~RootValid(args'.root)
           \/ args'.command = "verify" /\ ~db_exists )
      => /\ mode' = "idle"
         /\ exit_code' = 1
         /\ report' = NoReport
         /\ walk' = NoWalk
         /\ stats' = stats
         /\ db_exists' = db_exists
         /\ db' = db
         /\ conn' = conn ]_vars

\* an index command given a file as its root has failed and left no store
C19_Witness ==
  /\ mode = "idle"
  /\ exit_code = 1
  /\ report = NoReport
  /\ args.command = "index"
  /\ \E p \in DOMAIN fs : AsRoot(p) = args.root
  /\ ~db_exists

\* parse_exclude_extensions has returned
Parsed == pc = "loop" /\ "exclude_ext" \in DOMAIN args

\* s[i..j] is a piece of s between commas (or the ends of s)
Piece(s, i, j) ==
  /\ \A k \in i..j : s[k] # ","
  /\ i = 1 \/ s[i - 1] = ","
  /\ j = Len(s) \/ s[j + 1] = ","

\* s[m..n] is what is left of s[i..j] without the white space around it
Trimmed(s, i, j, m, n) ==
  /\ i <= m /\ m <= n /\ n <= j
  /\ s[m] # " " /\ s[n] # " "
  /\ \A k \in i..j : (k < m \/ k > n) => s[k] = " "

\* e is t in lower case, behind a dot when t does not begin with one
Dotted(e, t) ==
  LET body == IF t[1] = "." THEN e ELSE Tail(e)
  IN /\ e # <<>> /\ e[1] = "."
     /\ Len(body) = Len(t)
     /\ \A k \in 1..Len(t) :
          << t[k], body[k] >> \in
            { <<"a", "a">>, <<"A", "a">>, <<".", ".">>, <<" ", " ">> }

\* e is the extension one of the tokens of the arguments stands for
Token(e, exclude_args) ==
  \E a \in 1..Len(exclude_args) :
    LET s == exclude_args[a]
    IN \E i \in 1..Len(s), j \in 1..Len(s), m \in 1..Len(s), n \in 1..Len(s) :
         /\ Piece(s, i, j)
         /\ Trimmed(s, i, j, m, n)
         /\ Dotted(e, SubSeq(s, m, n))

\* C20: the set parse_exclude_extensions returns holds exactly the
\* extensions of the non-empty tokens of its arguments (a token is a piece
\* between commas without the white space around it; its extension is the
\* token in lower case behind a dot, added when the token has none); every
\* element starts with a dot and is in lower case; the function applied to
\* its own result, in any order, returns the same set.
C20_ExclusionNormalized ==
  Parsed =>
    LET result == args.exclude_exts
    IN /\ \A e \in result :
            /\ e # <<>>
            /\ e[1] = "."
            /\ \A k \in 1..Len(e) : e[k] # "A"
            /\ Token(e, args.exclude_ext)
       /\ \A a \in 1..Len(args.exclude_ext) :
            LET s == args.exclude_ext[a]
            IN \A i \in 1..Len(s), j \in 1..Len(s), m \in 1..Len(s), n \in 1..Len(s) :
                 (Piece(s, i, j) /\ Trimmed(s, i, j, m, n))
                   => \E e \in result : Dotted(e, SubSeq(s, m, n))
       /\ \A again \in Perms(result) :
            parse_exclude_extensions(again) = result

\* arguments given with upper case, white space, a comma and no dot gave
\* two extensions
C20_Witness ==
  /\ Parsed
  /\ \E k \in 1..Len(args.exclude_ext) :
       /\ \E i \in 1..Len(args.exclude_ext[k]) :
            args.exclude_ext[k][i] = "A"
       /\ \E i \in 1..Len(args.exclude_ext[k]) :
            args.exclude_ext[k][i] = " "
       /\ \E i \in 1..Len(args.exclude_ext[k]) :
            args.exclude_ext[k][i] = ","
  /\ Cardinality(args.exclude_exts) = 2

\* the file at p has the size and mtime the record r holds and other bytes
SameStat(p, r) ==
  /\ r.size = Len(fs[p].bytes)
  /\ r.mtime_ns = fs[p].mtime
  /\ r.hash # Digest(p)

\* C21: a file whose content was replaced while its size and mtime stayed
\* those of its record is classified unchanged by an index run, which keeps
\* the record's size, mtime and old hash; and when no record holds the new
\* digest, a verify run lists the file under mismatched with the old hash
\* expected and the new digest found, and does not count it verified.
C21_NoShortcutInVerify ==
  /\ IndexDone =>
       \A p \in DOMAIN fs :
         (InScope(p) /\ p \in DOMAIN start_db /\ SameStat(p, start_db[p])) =>
           /\ Core(db[p]) = Core(start_db[p])
           /\ p \notin PathsOf(report.details.updated)
           /\ p \notin PathsOf(report.details.added)
           /\ report.stats.unchanged > 0
  /\ VerifyDone =>
       \A p \in DOMAIN fs :
         ( /\ InScope(p) /\ p \in DOMAIN db /\ SameStat(p, db[p])
           /\ \A q \in DOMAIN db : db[q].hash # Digest(p) ) =>
           /\ p \notin report.details.verified
           /\ \E e \in report.details.mismatched :
                /\ e.path = p
                /\ e.expected_hash = db[p].hash
                /\ e.actual_hash = Digest(p)

\* the content was replaced, then an index run at time 2 refreshed the
\* record and kept its hash, then a verify run reported the file
C21_Witness ==
  /\ VerifyDone
  /\ \E p \in DOMAIN fs :
       /\ InScope(p) /\ p \in DOMAIN db /\ SameStat(p, db[p])
       /\ \A q \in DOMAIN db : db[q].hash # Digest(p)
       /\ db[p].last_seen = 2
       /\ p \in PathsOf(report.details.mismatched)

\* the index run is at a file whose record at the same path holds the size
\* and mtime the file has
AtUnchanged ==
  /\ mode = "index"
  /\ pc = "stat"
  /\ cur.path \in DOMAIN fs
  /\ cur.path \in DOMAIN conn
  /\ conn[cur.path].size = Len(fs[cur.path].bytes)
  /\ conn[cur.path].mtime_ns = fs[cur.path].mtime

\* C22: the step an index run takes at such a file counts it unchanged,
\* sets the last_seen of its record to the start time of the run, leaves the
\* other fields of that record and every other record as they were, and goes
\* on to the next file without hashing (no new, no updated, no hash error).
C22_UnchangedFrame ==
  [][ (AtUnchanged /\ mode' = "index") =>
        /\ stats' = [ stats EXCEPT !.unchanged = @ + 1 ]
        /\ details' = details
        /\ pc' = "loop"
        /\ DOMAIN conn' = DOMAIN conn
        /\ \A q \in DOMAIN conn :
             IF q = cur.path
             THEN conn'[q] = [ conn[q] EXCEPT !.last_seen = run_started ]
             ELSE conn'[q] = conn[q] ]_vars

\* an index run has just refreshed one record; another record, not yet
\* reached, still has the last_seen of an earlier time
C22_Witness ==
  /\ mode = "index"
  /\ pc = "loop"
  /\ stats.unchanged = 1
  /\ stats.scanned = 1
  /\ \E p \in DOMAIN conn, q \in DOMAIN conn :
       /\ conn[p].last_seen = run_started
       /\ conn[q].last_seen < run_started
       /\ q \in DOMAIN fs
       /\ Lower(Suffix(q)) \notin args.exclude_exts

\* the reported run scanned the file f
Scanned(f) == f \in DOMAIN fs /\ Walked(f) /\ ~Excluded(f)

C24_PathFallbackMismatch ==
  VerifyDone =>
    /\ \A p \in DOMAIN fs :
         ( /\ InScope(p)
           /\ p \in DOMAIN db
           /\ \A q \in DOMAIN db : db[q].hash # Digest(p) ) =>
           /\ p \in PathsOf(report.details.mismatched)
           /\ p \notin report.details.verified
    /\ \A e \in report.details.mismatched :
         /\ e.expected_hash # e.actual_hash
         /\ e.path \in DOMAIN db
         /\ e.expected_hash = db[e.path].hash
    /\ \A p \in report.details.verified :
         \E q \in DOMAIN db : db[q].hash = Digest(p)

\* a verify run matched one file by its hash and another by its path only
C24_Witness ==
  /\ VerifyDone
  /\ report.stats.mismatched = 1
  /\ report.stats.verified = 1
  /\ report.stats.untracked = 0

\* the records holding the digest of the file being reconciled
Sharing == { q \in DOMAIN db : db[q].hash = compute_hash(fs[cur.path].bytes) }

\* C25: when verify reconciles a file whose digest some records hold, the
\* record it settles on (the one whose path joins verified_paths) holds that
\* digest, and its stored filename is the file's current filename whenever
\* some record holding the digest has that filename.
C25_HashTieBreak ==
  [][ ( /\ mode = "verify"
        /\ pc = "hash"
        /\ pc' = "loop"
        /\ cur.path \in DOMAIN fs
        /\ Sharing # {} ) =>
      \E c \in Sharing :
        /\ c \in verified_paths'
        /\ verified_paths' \subseteq verified_paths \cup {c}
        /\ (\E q \in Sharing : db[q].filename = Filename(cur.path)) =>
             db[c].filename = Filename(cur.path) ]_vars

\* a file was verified whose digest two records held, one under the file's
\* filename and one under another; the first was taken, the second not
C25_Witness ==
  /\ mode = "verify"
  /\ pc = "loop"
  /\ \E p \in details.verified, c \in verified_paths, q \in DOMAIN db :
       /\ p \in DOMAIN fs
       /\ db[c].hash = compute_hash(fs[p].bytes)
       /\ db[q].hash = db[c].hash
       /\ db[c].filename = Filename(p)
       /\ db[q].filename # Filename(p)
       /\ q \notin verified_paths

\* the files iter_files(root) owes: regular files below root with no
\* symbolic link and no unreadable directory on the way down
Owed(root) ==
  { p \in DOMAIN fs :
      /\ root = TOP \/ root \in Chain(Dir(p))
      /\ Suffix(p) \notin { ".lnk", ".err" }
      /\ \A d \in Chain(Dir(p)) : d \notin { "link", "locked" } }

\* C26: over an unchanging tree every index run ends, and when it has ended
\* the walker has yielded each owed file once and nothing else: the yields
\* counted equal the owed files, each owed file has a record, no record was
\* made for a symbolic link, for an entry whose stat fails, or for a file
\* below a symbolic link or an unreadable directory, and a run over an empty
\* store added exactly the owed files, each as new.
C26_WalkerCoverage ==
  /\ [](IndexDone =>
         /\ report.stats.scanned = Cardinality(Owed(report.root))
         /\ report.stats.errors = 0
         /\ Owed(report.root) \subseteq DOMAIN db
         /\ DOMAIN db \subseteq Owed(TOP)
         /\ start_db = EmptyStore =>
              /\ PathsOf(report.details.added) = Owed(report.root)
              /\ report.stats.hashed_new = Cardinality(Owed(report.root))
              /\ report.stats.unchanged = 0)
  /\ (mode = "index") ~> (mode = "idle")

\* an index run from TOP ended over the whole of WalkPaths: three files
\* were yielded, the links and the unreadable parts passed over
C26_Witness ==
  /\ IndexDone
  /\ report.root = TOP
  /\ DOMAIN fs = WalkPaths
  /\ report.stats.scanned = 3
  /\ DOMAIN db = { <<"/", "cover", ".jpg">>, <<"old", "photo", ".jpg">>,
                   <<"old/sub", "photo", ".jpg">> }

\* the four outcome lists of a verify report, as sets of paths
VerifyLists ==
  << report.details.verified, PathsOf(report.details.mismatched),
     PathsOf(report.details.untracked), PathsOf(report.details.errors) >>

\* C27: after a verify run during which neither the store nor the files
\* changed, scanned is the sum of verified, mismatched, untracked and
\* errors; each counter is the size of its list of paths; no path is in two
\* of the lists; and the lists together hold exactly the walked files whose
\* extension is not excluded.
C27_VerifyPartition ==
  VerifyDone =>
    /\ report.stats.scanned =
         report.stats.verified + report.stats.mismatched
           + report.stats.untracked + report.stats.errors
    /\ report.stats.verified = Cardinality(VerifyLists[1])
    /\ report.stats.mismatched = Cardinality(VerifyLists[2])
    /\ report.stats.untracked = Cardinality(VerifyLists[3])
    /\ report.stats.errors = Cardinality(VerifyLists[4])
    /\ \A i, j \in 1..4 : i # j => VerifyLists[i] \cap VerifyLists[j] = {}
    /\ UNION { VerifyLists[i] : i \in 1..4 } =
         { p \in DOMAIN fs : Walked(p) /\ ~Excluded(p) }

\* a verify run gave one file the outcome error (a row of another
\* algorithm) and another file another outcome
C27_Witness ==
  /\ VerifyDone
  /\ report.stats.errors = 1
  /\ \E e \in report.details.errors : e.error = "algo"
  /\ report.stats.scanned >= 2
  /\ Cardinality({ i \in 1..4 : VerifyLists[i] # {} }) >= 2

\* the files an index run wrote a row for, by its counters
IndexWrites(s) == s.hashed_new + s.hashed_updated + s.unchanged

\* C28: while an index run is between two files, scanned is the sum of
\* hashed_new, hashed_updated, unchanged and errors, and the writes issued
\* since the last commit (the run's own count, taken after each write) are
\* the files counted new, updated or unchanged, modulo the commit period;
\* a step of the run that changes the rows the connection sees counts one
\* such file; and the report of the run carries these counters, so that at
\* the end of the run the partition holds and the writes are as many as
\* hashed_new + hashed_updated + unchanged.
C28_IndexPartition ==
  /\ []( (mode = "index" /\ pc = "loop") =>
           /\ stats.scanned = IndexWrites(stats) + stats.errors
           /\ processed_since_commit = IndexWrites(stats) % COMMIT_EVERY )
  /\ []( (mode = "idle" /\ report.mode = "index") =>
           report.stats.scanned = IndexWrites(report.stats) + report.stats.errors )
  /\ [][ /\ (mode = "index" /\ mode' = "index" /\ conn' # conn) =>
             IndexWrites(stats') = IndexWrites(stats) + 1
         /\ (mode = "index" /\ mode' = "index" /\ stats'.errors # stats.errors) =>
             conn' = conn /\ IndexWrites(stats') = IndexWrites(stats)
         /\ (mode = "index" /\ report'.mode = "index") =>
             report'.stats = stats ]_vars

\* an index run ended with a file of each outcome that writes and a file
\* that failed
C28_Witness ==
  /\ mode = "idle"
  /\ report.mode = "index"
  /\ report.stats.errors = 1
  /\ report.stats.unchanged = 1
  /\ report.stats.hashed_new + report.stats.hashed_updated >= 1

\* C29: during a verify run the digest of every file counted verified (and
\* of every file matched by hash) is in verified_hashes, and the sweep that
\* ends the run reports no record whose hash is in verified_hashes, whether
\* or not its path is in verified_paths; so after a run over an unchanging
\* tree no record is reported missing whose hash is the digest of a file
\* the run verified.
C29_DuplicateMasksDeletion ==
  /\ []( mode = "verify" =>
           \A p \in details.verified :
             p \in DOMAIN fs => compute_hash(fs[p].bytes) \in verified_hashes )
  /\ [][ (mode = "verify" /\ report'.mode = "verify") =>
           \A q \in DOMAIN db :
             db[q].hash \in verified_hashes =>
               q \notin PathsOf(report'.details.missing) ]_vars
  /\ []( VerifyDone =>
           \A q \in DOMAIN db, p \in report.details.verified :
             db[q].hash = Digest(p) => q \notin PathsOf(report.details.missing) )

\* a verify run ended without a missing record although the file of a
\* record is gone: another scanned file holds the same bytes, and that
\* file was matched to its own record
C29_Witness ==
  /\ VerifyDone
  /\ report.stats.missing = 0
  /\ \E q \in DOMAIN db, p \in report.details.verified :
       /\ q \notin DOMAIN fs
       /\ Walked(q) /\ ~Excluded(q)
       /\ p \in DOMAIN db
       /\ p # q
       /\ db[p].filename = Filename(p)
       /\ db[q].filename # Filename(p)
       /\ db[q].hash = Digest(p)

\* the files a finished run walked and did not exclude
Kept == { p \in DOMAIN fs : Walked(p) /\ ~Excluded(p) }

\* the record of p at the start of the run has the size and mtime of p
Same(p) ==
  /\ p \in DOMAIN start_db
  /\ start_db[p].size = Len(fs[p].bytes)
  /\ start_db[p].mtime_ns = fs[p].mtime

\* a row without the value of last_seen
Mask(row) == [ row EXCEPT !.last_seen = 0 ]

\* the counters of a verify run as a function of the store and the files
VerifyCounted ==
  LET held == { p \in Kept : \E q \in DOMAIN db : db[q].hash = Digest(p) }
      gone == { q \in DOMAIN db :
                  /\ Walked(q) /\ ~Excluded(q)
                  /\ q \notin DOMAIN fs
                  /\ \A p \in Kept : db[q].hash # Digest(p) }
  IN /\ report.stats.verified = Cardinality(held)
     /\ report.stats.mismatched = Cardinality((Kept \ held) \cap DOMAIN db)
     /\ report.stats.untracked = Cardinality((Kept \ held) \ DOMAIN db)
     /\ report.stats.missing = Cardinality(gone)
     /\ report.stats.errors = 0

\* the counters and the store of an index run as a function of the store
\* the run began with and the files
IndexCounted ==
  /\ report.stats.unchanged = Cardinality({ p \in Kept : Same(p) })
  /\ report.stats.hashed_new = Cardinality(Kept \ DOMAIN start_db)
  /\ report.stats.hashed_updated =
       Cardinality({ p \in Kept \cap DOMAIN start_db : ~Same(p) })
  /\ report.stats.errors = 0
  /\ DOMAIN db = DOMAIN start_db \cup Kept
  /\ \A q \in DOMAIN db \ Kept : db[q] = start_db[q]
  /\ \A p \in Kept :
       Mask(db[p]) =
         IF Same(p) THEN Mask(start_db[p])
         ELSE Mask(Row(p, Len(fs[p].bytes), fs[p].mtime, Digest(p),
                       DEFAULT_HASH_ALGO, 0, fs[p].bytes))

\* C30: for a store and a tree that do not change during the run, whatever
\* order the walker yields the files in, a verify run ends with the same
\* counters verified, mismatched, untracked, missing and errors, and an
\* index run with the same counters and the same rows (last_seen aside):
\* those that the store and the files alone determine.
C30_OrderIndependence ==
  /\ VerifyDone => VerifyCounted
  /\ IndexDone => IndexCounted

\* a verify run over three files, which the walker may yield in several
\* orders, ended with a verified file and a file of another outcome
C30_Witness ==
  /\ VerifyDone
  /\ report.stats.scanned = 3
  /\ report.stats.verified >= 1
  /\ report.stats.mismatched + report.stats.untracked >= 1

====
